---------------------------- MODULE Spec2Model ----------------------------
(***************************************************************************)
(* The resilient request-execution layer of go-snipeit: the token-bucket   *)
(* rate limiter (ratelimit.go) and the retrying request executor           *)
(* (Client.DoWithOptions, doOnce, shouldRetry in snipeit.go).              *)
(*                                                                         *)
(* Time is a global clock `now`, counted in ticks of one second; every     *)
(* wait of the program is a whole number of ticks (a Retry-After value is  *)
(* parsed to the millisecond and the wait on it cut to the tick).  Tokens  *)
(* are counted in units of 1/Scale token, so the float64 arithmetic of     *)
(* the bucket is exact for the rates the model draws.  A blocked select    *)
(* returns as soon as one of its cases is ready: the clock does not        *)
(* advance while a select has a ready case.                                *)
(***************************************************************************)
EXTENDS Integers, Sequences, FiniteSets, TLC

\* ------------------------------------------------------------------ bounds

\* The clock of the limiter's callers stops at MaxTime.
MaxTime == 4
\* A token is Scale units; 1.0 in the code is Scale here.
Scale == 2
\* Largest burst size of a modelled limiter.
MaxBurst == 2
\* Wait calls made on the limiter by its callers altogether.
MaxCalls == 4
\* DoWithOptions calls made on the client by its callers altogether.
MaxExecutes == 1
\* Largest MaxRetries of a modelled custom policy.
MaxRetriesBound == 2
\* DoWithOptions calls made on a shared client by its concurrent callers
\* altogether.
MaxConcurrent == 2

Procs == {"p1", "p2"}
NoProc == "none"

Min(a, b) == IF a <= b THEN a ELSE b
Max(a, b) == IF a >= b THEN a ELSE b

\* ------------------------------------------------------------ program constants

defaultMaxRequestsPerSecond == 10
defaultBurstSize == 15
defaultMaxRetries == 3
\* 1 * time.Second and 30 * time.Second, in ticks
defaultInitialBackoff == 1
defaultMaxBackoff == 30

\* ------------------------------------------------------------------ state

VARIABLES
    now,             \* time.Now(), in ticks since the limiter was constructed
    limiter,         \* the TokenBucketRateLimiter: tokens, maxTokens, tokensPerSec, lastRefillTime
    mutex,           \* limiter.mutex: the caller holding it, or NoProc
    pc,              \* where each caller is
    ctx,             \* each caller's context: "live", "canceled", "deadline"
    waitErr,         \* what the caller's Wait returned: "nil", "canceled", "deadline"
    timer,           \* the deadline of the caller's pending timer
    call,            \* the caller's current Wait call: when it refilled, whether it blocked, ...
    calls,           \* calls made so far (Wait calls of the limiter's callers, Execute calls of the client's)
    nAcq,            \* Wait calls that have entered the critical section so far
    admits,          \* the instants at which Wait returned nil, in order
    client,          \* the Client: rateLimiter (set or nil), retryPolicy, disableRetries
    server,          \* the Retry-After values the server puts on a 429 response
    ex               \* each caller's DoWithOptions call: its options, locals and result

vars == <<now, limiter, mutex, pc, ctx, waitErr, timer, call, calls, nAcq, admits, client, server, ex>>

\* -------------------------------------------------------------- the limiter

\* requestsPerSecond values of the modelled limiters, in units per tick: the
\* rates r/Scale tokens per second for which (1 - tokens) / tokensPerSec is a
\* whole number of ticks.
Rates == {r \in 1..Scale : Scale % r = 0}
Bursts == 1..MaxBurst

\* NewTokenBucketRateLimiter with the defaults applied only when both
\* arguments are out of range.
NewTokenBucketRateLimiter_CoupledDefaults(requestsPerSecond, burstSize, t) ==
    LET both == requestsPerSecond <= 0 /\ burstSize <= 0
        rps  == IF both THEN defaultMaxRequestsPerSecond * Scale ELSE requestsPerSecond
        bs   == IF both THEN defaultBurstSize ELSE burstSize
    IN  [tokens |-> bs * Scale, maxTokens |-> bs * Scale, tokensPerSec |-> rps,
         lastRefillTime |-> t]

\* NewTokenBucketRateLimiter(requestsPerSecond, burstSize), called at `t`.
\* requestsPerSecond is given in units per tick (float64(10) is 10 * Scale),
\* burstSize in tokens.
NewTokenBucketRateLimiter(requestsPerSecond, burstSize, t) ==
    LET rps == IF requestsPerSecond <= 0
               THEN defaultMaxRequestsPerSecond * Scale ELSE requestsPerSecond
        bs  == IF burstSize <= 0 THEN defaultBurstSize ELSE burstSize
    IN  [tokens         |-> bs * Scale,
         maxTokens      |-> bs * Scale,
         tokensPerSec   |-> rps,
         lastRefillTime |-> t]

\* Refill without the cap at maxTokens.
Refill_NoCap(l, t) ==
    [l EXCEPT !.tokens = l.tokens + (t - l.lastRefillTime) * l.tokensPerSec,
              !.lastRefillTime = t]

\* Wait, lines 53-56: refill by the time elapsed since lastRefillTime.
Refill(l, t) ==
    LET elapsed == t - l.lastRefillTime
    IN  [l EXCEPT !.tokens = Min(l.maxTokens, l.tokens + elapsed * l.tokensPerSec),
                  !.lastRefillTime = t]

\* WaitTime without the division by the rate.
WaitTime_NoRate(l) == Scale - l.tokens

\* Wait, line 65: time.Duration((1.0 - r.tokens) / r.tokensPerSec * float64(time.Second))
WaitTime(l) == (Scale - l.tokens) \div l.tokensPerSec

\* ctx.Err() always nil.
CtxErr_Nil(c) == "nil"

\* ctx.Err() of a context in state c: nil, context.Canceled or
\* context.DeadlineExceeded.
CtxErr(c) == IF c = "live" THEN "nil" ELSE c

\* The record of a Wait call: arr is its rank among the calls in the order
\* they arrive at the mutex and arrAt the instant it arrives, no its rank in
\* the order the mutex is taken and acq the instant it takes it.
NoCall ==
    [arr |-> 0, arrAt |-> 0, no |-> 0, acq |-> 0, blocked |-> FALSE, refilled |-> 0,
     cancelAt |-> -1]

\* The mutex taken whether it is held or not.
Unlocked_Always(m) == TRUE

\* The mutex kept from the other callers while a call waits before a retry.
Unlocked_NoSleeper(m) == m = NoProc /\ \A p \in Procs : pc[p] # "sleep"

\* sync.Mutex: Lock returns when no caller holds the mutex.
Unlocked(m) == m = NoProc

\* A caller calls limiter.Wait(ctx) with a context of its own, possibly one
\* that is already cancelled, and arrives at the mutex.
CallWait(p) ==
    /\ pc[p] = "idle"
    /\ calls < MaxCalls
    /\ \E c \in {"live", "canceled", "deadline"} :
          /\ ctx' = [ctx EXCEPT ![p] = c]
          /\ call' = [call EXCEPT ![p] = [NoCall EXCEPT !.arr = calls + 1, !.arrAt = now,
                                                       !.cancelAt = IF c = "live" THEN -1 ELSE now]]
    /\ pc' = [pc EXCEPT ![p] = "lock"]
    /\ calls' = calls + 1
    /\ waitErr' = [waitErr EXCEPT ![p] = "nil"]
    /\ UNCHANGED <<now, limiter, mutex, timer, nAcq, admits, client, server, ex>>

\* Acquire with the context looked at before a token is taken: a call whose
\* context is done returns its error and takes none.
Acquire_ChecksContext(p) ==
    /\ pc[p] = "lock"
    /\ Unlocked(mutex)
    /\ LET l == Refill(limiter, now)
           c == [call[p] EXCEPT !.no = nAcq + 1, !.acq = now, !.refilled = l.tokens]
       IN  /\ nAcq' = nAcq + 1
           /\ IF ctx[p] # "live"
              THEN /\ limiter' = l
                   /\ call' = [call EXCEPT ![p] = c]
                   /\ waitErr' = [waitErr EXCEPT ![p] = CtxErr(ctx[p])]
                   /\ pc' = [pc EXCEPT ![p] = "waitret"]
                   /\ UNCHANGED <<mutex, timer, admits>>
              ELSE IF l.tokens >= Scale
              THEN /\ limiter' = [l EXCEPT !.tokens = @ - Scale]
                   /\ call' = [call EXCEPT ![p] = c]
                   /\ admits' = Append(admits, now)
                   /\ pc' = [pc EXCEPT ![p] = "waitret"]
                   /\ UNCHANGED <<mutex, timer, waitErr>>
              ELSE /\ limiter' = l
                   /\ call' = [call EXCEPT ![p] = [c EXCEPT !.blocked = TRUE]]
                   /\ timer' = [timer EXCEPT ![p] = now + WaitTime(l)]
                   /\ mutex' = p
                   /\ pc' = [pc EXCEPT ![p] = "blocked"]
                   /\ UNCHANGED <<admits, waitErr>>
    /\ UNCHANGED <<now, ctx, calls, client, server, ex>>

\* Wait, lines 49-68: take the mutex, refill, and either consume a token and
\* return (the deferred Unlock runs in the same step) or start the timer and
\* block in the select with the mutex held.
Acquire(p) ==
    /\ pc[p] = "lock"
    /\ Unlocked(mutex)
    /\ LET l == Refill(limiter, now)
           c == [call[p] EXCEPT !.no = nAcq + 1, !.acq = now, !.refilled = l.tokens]
       IN  /\ nAcq' = nAcq + 1
           /\ IF l.tokens >= Scale
              THEN /\ limiter' = [l EXCEPT !.tokens = @ - Scale]
                   /\ call' = [call EXCEPT ![p] = c]
                   /\ admits' = Append(admits, now)
                   /\ pc' = [pc EXCEPT ![p] = "waitret"]
                   /\ UNCHANGED <<mutex, timer>>
              ELSE /\ limiter' = l
                   /\ call' = [call EXCEPT ![p] = [c EXCEPT !.blocked = TRUE]]
                   /\ timer' = [timer EXCEPT ![p] = now + WaitTime(l)]
                   /\ mutex' = p
                   /\ pc' = [pc EXCEPT ![p] = "blocked"]
                   /\ UNCHANGED admits
    /\ UNCHANGED <<now, ctx, waitErr, calls, client, server, ex>>

\* TimerFires with lastRefillTime brought up to the instant of the admission.
TimerFires_Refreshes(p) ==
    /\ pc[p] = "blocked"
    /\ now >= timer[p]
    /\ limiter' = [limiter EXCEPT !.tokens = 0, !.lastRefillTime = now]
    /\ waitErr' = [waitErr EXCEPT ![p] = "nil"]
    /\ admits' = Append(admits, now)
    /\ mutex' = NoProc
    /\ pc' = [pc EXCEPT ![p] = "waitret"]
    /\ UNCHANGED <<now, ctx, timer, call, calls, nAcq, client, server, ex>>

\* TimerFires with the fraction of a token that was in the bucket left there.
TimerFires_KeepsTokens(p) ==
    /\ pc[p] = "blocked"
    /\ now >= timer[p]
    /\ limiter' = limiter
    /\ waitErr' = [waitErr EXCEPT ![p] = "nil"]
    /\ admits' = Append(admits, now)
    /\ mutex' = NoProc
    /\ pc' = [pc EXCEPT ![p] = "waitret"]
    /\ UNCHANGED <<now, ctx, timer, call, calls, nAcq, client, server, ex>>

\* Wait, lines 73-76: the timer fired; the token is consumed.
TimerFires(p) ==
    /\ pc[p] = "blocked"
    /\ now >= timer[p]
    /\ limiter' = [limiter EXCEPT !.tokens = 0]
    /\ waitErr' = [waitErr EXCEPT ![p] = "nil"]
    /\ admits' = Append(admits, now)
    /\ mutex' = NoProc
    /\ pc' = [pc EXCEPT ![p] = "waitret"]
    /\ UNCHANGED <<now, ctx, timer, call, calls, nAcq, client, server, ex>>

\* CtxDone with the bucket emptied as on the timer's path.
CtxDone_Consumes(p) ==
    /\ pc[p] = "blocked"
    /\ ctx[p] # "live"
    /\ limiter' = [limiter EXCEPT !.tokens = 0]
    /\ waitErr' = [waitErr EXCEPT ![p] = CtxErr(ctx[p])]
    /\ mutex' = NoProc
    /\ pc' = [pc EXCEPT ![p] = "waitret"]
    /\ UNCHANGED <<now, ctx, timer, call, calls, nAcq, admits, client, server, ex>>

\* CtxDone without the deferred Unlock.
CtxDone_KeepsLock(p) ==
    /\ pc[p] = "blocked"
    /\ ctx[p] # "live"
    /\ waitErr' = [waitErr EXCEPT ![p] = CtxErr(ctx[p])]
    /\ pc' = [pc EXCEPT ![p] = "waitret"]
    /\ UNCHANGED <<now, limiter, mutex, ctx, timer, call, calls, nAcq, admits, client, server, ex>>

\* Wait, lines 77-79: the context is done; return ctx.Err().
CtxDone(p) ==
    /\ pc[p] = "blocked"
    /\ ctx[p] # "live"
    /\ waitErr' = [waitErr EXCEPT ![p] = CtxErr(ctx[p])]
    /\ mutex' = NoProc
    /\ pc' = [pc EXCEPT ![p] = "waitret"]
    /\ UNCHANGED <<now, limiter, ctx, timer, call, calls, nAcq, admits, client, server, ex>>

\* The caller's context is cancelled, or its deadline passes, while its call
\* is in progress.
Cancel(p) ==
    /\ pc[p] \in {"lock", "blocked", "doOnce", "sleep"}
    /\ ctx[p] = "live"
    /\ \E c \in {"canceled", "deadline"} : ctx' = [ctx EXCEPT ![p] = c]
    /\ call' = [call EXCEPT ![p].cancelAt = now]
    /\ UNCHANGED <<now, limiter, mutex, pc, waitErr, timer, calls, nAcq, admits, client, server, ex>>

\* The caller of Wait has its result; the call's context, timer and record
\* are dropped.
WaitReturns(p) ==
    /\ pc[p] = "waitret"
    /\ pc' = [pc EXCEPT ![p] = "idle"]
    /\ ctx' = [ctx EXCEPT ![p] = "live"]
    /\ waitErr' = [waitErr EXCEPT ![p] = "nil"]
    /\ timer' = [timer EXCEPT ![p] = 0]
    /\ call' = [call EXCEPT ![p] = NoCall]
    /\ UNCHANGED <<now, limiter, mutex, calls, nAcq, admits, client, server, ex>>

\* ------------------------------------------------- retry policy and client

\* A float64 factor is a pair <<numerator, denominator>>.
Times(d, f) == (d * f[1]) \div f[2]

NilPolicy ==
    [nil |-> TRUE, MaxRetries |-> 0, RetryableStatusCodes |-> {},
     InitialBackoff |-> 0, MaxBackoff |-> 0,
     BackoffMultiplier |-> <<0, 1>>, Jitter |-> <<0, 1>>]

DefaultRetryPolicy ==
    [nil |-> FALSE,
     MaxRetries |-> defaultMaxRetries,
     RetryableStatusCodes |-> {429, 500, 502, 503, 504},
     InitialBackoff |-> defaultInitialBackoff,
     MaxBackoff |-> defaultMaxBackoff,
     BackoffMultiplier |-> <<2, 1>>,
     Jitter |-> <<1, 5>>]

\* The custom policies a client is constructed with.
CustomPolicies ==
    {[nil |-> FALSE, MaxRetries |-> m, RetryableStatusCodes |-> {429},
      InitialBackoff |-> 1, MaxBackoff |-> 2,
      BackoffMultiplier |-> <<2, 1>>, Jitter |-> j] :
        m \in 0..MaxRetriesBound, j \in {<<0, 1>>, <<1, 1>>}}

\* ClientOptions: RateLimiter is TRUE when one is given.  With DisableRetries
\* the policy is not read, and the limiter is consulted before the policy is:
\* there one custom policy stands for all.
ClientOptionsSet ==
    [RateLimiter : {FALSE}, RetryPolicy : {NilPolicy} \cup CustomPolicies,
     DisableRetries : {FALSE}]
    \cup [RateLimiter : {TRUE},
          RetryPolicy : {NilPolicy} \cup {q \in CustomPolicies : q.MaxRetries = 1 /\ q.Jitter[1] = 0},
          DisableRetries : {FALSE}]
    \cup [RateLimiter : BOOLEAN,
          RetryPolicy : {NilPolicy} \cup {q \in CustomPolicies : q.MaxRetries = 1 /\ q.Jitter[1] = 0},
          DisableRetries : {TRUE}]

\* NewClientWithOptions with no default policy.
NewClientWithOptions_NoDefault(options) ==
    [rateLimiter    |-> options.RateLimiter,
     disableRetries |-> options.DisableRetries,
     retryPolicy    |-> options.RetryPolicy]

\* NewClientWithOptions, lines 154-163 (NewClient passes nil options and
\* NewClientWithHTTPClient only an HTTP client: no limiter, no policy, retries
\* not disabled).
NewClientWithOptions(options) ==
    [rateLimiter    |-> options.RateLimiter,
     disableRetries |-> options.DisableRetries,
     retryPolicy    |-> IF ~options.DisableRetries /\ options.RetryPolicy.nil
                        THEN DefaultRetryPolicy ELSE options.RetryPolicy]

\* ------------------------------------------------------ responses and errors

NilErr == [kind |-> "nil", status |-> 0]
\* *ErrorResponse for a non-2xx response
APIError(status) == [kind |-> "api", status |-> status]
TransportError == [kind |-> "transport", status |-> 0]
DecodeError == [kind |-> "decode", status |-> 0]
GetBodyError == [kind |-> "getbody", status |-> 0]
\* ctx.Err(): context.Canceled or context.DeadlineExceeded
ContextError(c) == [kind |-> CtxErr(c), status |-> 0]

NilResp == [status |-> 0, retryAfter |-> <<>>]
Is2xx(status) == status >= 200 /\ status <= 299

Statuses == {200, 404, 429, 503}
\* Retry-After header values: absent, a number of seconds, an HTTP date
\* (<<"D", d>>: the RFC 1123 text of the instant d on the clock).
RetryAfterHeaders == {<<>>, <<"1">>, <<"2">>, <<"0">>}

\* Retry-After values of other forms: a negative number, a number with a
\* fraction, numbers followed by letters, a word, a date in the past and one
\* in the future.
OddRetryAfterHeaders ==
    {<<>>, <<"2">>, <<"0">>, <<"-", "1">>, <<"2", ".", "0">>, <<"0", "m", "2">>,
     <<"1", "m">>, <<"x">>, <<"D", "0">>, <<"D", "3">>}

\* What the transport answers to one c.client.Do(req): an error, or a response.
TransportOutcomes ==
    {[kind |-> "error", status |-> 0, retryAfter |-> <<>>, decodes |-> TRUE]}
    \cup {[kind |-> "response", status |-> 200, retryAfter |-> <<>>, decodes |-> d] :
            d \in BOOLEAN}
    \cup {[kind |-> "response", status |-> st, retryAfter |-> <<>>, decodes |-> TRUE] :
            st \in {404, 503}}
    \cup {[kind |-> "response", status |-> 429, retryAfter |-> h, decodes |-> TRUE] :
            h \in server}

\* doOnce with the transport's error returned whatever the context.
doOnce_RawError(out, c) ==
    IF out.kind = "error"
    THEN [resp |-> NilResp, err |-> TransportError]
    ELSE LET resp == [status |-> out.status, retryAfter |-> out.retryAfter]
         IN  IF ~Is2xx(out.status)
             THEN [resp |-> resp, err |-> APIError(out.status)]
             ELSE IF out.decodes
                  THEN [resp |-> resp, err |-> NilErr]
                  ELSE [resp |-> resp, err |-> DecodeError]

\* doOnce: one round trip, classified.
doOnce(out, c) ==
    IF out.kind = "error"
    THEN IF c # "live"
         THEN [resp |-> NilResp, err |-> ContextError(c)]
         ELSE [resp |-> NilResp, err |-> TransportError]
    ELSE LET resp == [status |-> out.status, retryAfter |-> out.retryAfter]
         IN  IF ~Is2xx(out.status)
             THEN [resp |-> resp, err |-> APIError(out.status)]
             ELSE IF out.decodes
                  THEN [resp |-> resp, err |-> NilErr]
                  ELSE [resp |-> resp, err |-> DecodeError]

DigitOf ==
    ("0" :> 0) @@ ("1" :> 1) @@ ("2" :> 2) @@ ("3" :> 3) @@ ("4" :> 4) @@
    ("5" :> 5) @@ ("6" :> 6) @@ ("7" :> 7) @@ ("8" :> 8) @@ ("9" :> 9)

IsDigits(s) == \A i \in 1..Len(s) : s[i] \in DOMAIN DigitOf

RECURSIVE leadingInt(_)
leadingInt(s) ==
    IF s = <<>> THEN 0 ELSE leadingInt(SubSeq(s, 1, Len(s) - 1)) * 10 + DigitOf[s[Len(s)]]

\* time.Second, in milliseconds: a parsed duration is kept to the millisecond.
Second == 1000

\* time.ParseDuration's unitMap, each unit as <<n, d>>: n/d milliseconds.
unitMap ==
    (<<"n", "s">> :> <<1, 1000000>>) @@ (<<"u", "s">> :> <<1, 1000>>) @@
    (<<"m", "s">> :> <<1, 1>>) @@ (<<"s">> :> <<Second, 1>>) @@
    (<<"m">> :> <<60 * Second, 1>>) @@ (<<"h">> :> <<3600 * Second, 1>>)

RECURSIVE SkipDigits(_, _)
SkipDigits(s, i) ==
    IF i <= Len(s) /\ s[i] \in DOMAIN DigitOf THEN SkipDigits(s, i + 1) ELSE i

RECURSIVE SkipUnit(_, _)
SkipUnit(s, i) ==
    IF i <= Len(s) /\ s[i] \notin DOMAIN DigitOf /\ s[i] # "." THEN SkipUnit(s, i + 1) ELSE i

RECURSIVE Pow10(_)
Pow10(n) == IF n = 0 THEN 1 ELSE 10 * Pow10(n - 1)

\* time.ParseDuration's loop over ([0-9]*(\.[0-9]*)?[a-z]+)+, from position i
\* of s: the sum of the components, in milliseconds.
RECURSIVE parseComponents(_, _)
parseComponents(s, i) ==
    IF i > Len(s) THEN [ok |-> TRUE, d |-> 0]
    ELSE IF ~(s[i] = "." \/ s[i] \in DOMAIN DigitOf) THEN [ok |-> FALSE, d |-> 0]
    ELSE LET j    == SkipDigits(s, i)
             v    == leadingInt(SubSeq(s, i, j - 1))
             dot  == j <= Len(s) /\ s[j] = "."
             k0   == IF dot THEN j + 1 ELSE j
             k    == IF dot THEN SkipDigits(s, k0) ELSE j
             f    == leadingInt(SubSeq(s, k0, k - 1))
             e    == SkipUnit(s, k)
             u    == SubSeq(s, k, e - 1)
         IN  IF j = i /\ k = k0 THEN [ok |-> FALSE, d |-> 0]
             ELSE IF e = k \/ u \notin DOMAIN unitMap THEN [ok |-> FALSE, d |-> 0]
             ELSE LET rest == parseComponents(s, e)
                      unit == unitMap[u]
                  IN  IF ~rest.ok THEN rest
                      ELSE [ok |-> TRUE,
                            d  |-> (v * unit[1]) \div unit[2]
                                   + (f * unit[1]) \div (unit[2] * Pow10(k - k0))
                                   + rest.d]

\* time.ParseDuration(retryAfter + "s"), in milliseconds: an optional sign,
\* then the components.
ParseDuration(h) ==
    LET s      == h \o <<"s">>
        signed == s[1] \in {"-", "+"}
        body   == IF signed THEN Tail(s) ELSE s
        r      == parseComponents(body, 1)
    IN  IF ~r.ok THEN r
        ELSE [ok |-> TRUE, d |-> IF s[1] = "-" THEN 0 - r.d ELSE r.d]

\* time.Parse(time.RFC1123, retryAfter), as the instant on the clock.
ParseRFC1123(h) ==
    IF Len(h) >= 2 /\ h[1] = "D" /\ IsDigits(Tail(h))
    THEN [ok |-> TRUE, t |-> leadingInt(Tail(h))]
    ELSE [ok |-> FALSE, t |-> 0]

\* shouldRetry with the errors of a done context retried like any other.
shouldRetry_ContextRetried(resp, err, policy, t) ==
    IF err = NilErr /\ resp # NilResp /\ resp.status >= 200 /\ resp.status < 300
    THEN [retry |-> FALSE, after |-> 0]
    ELSE IF resp # NilResp /\ resp.status \in policy.RetryableStatusCodes
    THEN [retry |-> TRUE,
          after |-> IF resp.retryAfter # <<>> /\ ParseDuration(resp.retryAfter).ok
                    THEN ParseDuration(resp.retryAfter).d ELSE 0]
    ELSE [retry |-> err # NilErr, after |-> 0]

\* shouldRetry with every error terminal: only the listed statuses are retried.
shouldRetry_TransportTerminal(resp, err, policy, t) ==
    IF err = NilErr /\ resp # NilResp /\ resp.status >= 200 /\ resp.status < 300
    THEN [retry |-> FALSE, after |-> 0]
    ELSE IF resp # NilResp /\ resp.status \in policy.RetryableStatusCodes
    THEN [retry |-> TRUE,
          after |-> IF resp.retryAfter # <<>> /\ ParseDuration(resp.retryAfter).ok
                    THEN ParseDuration(resp.retryAfter).d ELSE 0]
    ELSE [retry |-> FALSE, after |-> 0]

\* shouldRetry with the Retry-After header never read.
shouldRetry_HeaderIgnored(resp, err, policy, t) ==
    IF err = NilErr /\ resp # NilResp /\ resp.status >= 200 /\ resp.status < 300
    THEN [retry |-> FALSE, after |-> 0]
    ELSE IF resp # NilResp /\ resp.status \in policy.RetryableStatusCodes
    THEN [retry |-> TRUE, after |-> 0]
    ELSE IF err # NilErr
    THEN [retry |-> err.kind \notin {"canceled", "deadline"}, after |-> 0]
    ELSE [retry |-> FALSE, after |-> 0]

\* shouldRetry with a success answered "retry".
shouldRetry_SuccessRetried(resp, err, policy, t) ==
    IF err = NilErr /\ resp # NilResp /\ resp.status >= 200 /\ resp.status < 300
    THEN [retry |-> TRUE, after |-> 0]
    ELSE IF resp # NilResp /\ resp.status \in policy.RetryableStatusCodes
    THEN [retry |-> TRUE, after |-> 0]
    ELSE IF err # NilErr
    THEN [retry |-> err.kind \notin {"canceled", "deadline"}, after |-> 0]
    ELSE [retry |-> FALSE, after |-> 0]

\* shouldRetry(resp, err, policy), evaluated at instant t: whether to retry,
\* and the Retry-After delay in milliseconds.
shouldRetry(resp, err, policy, t) ==
    IF err = NilErr /\ resp # NilResp /\ resp.status >= 200 /\ resp.status < 300
    THEN [retry |-> FALSE, after |-> 0]
    ELSE IF resp # NilResp /\ resp.status \in policy.RetryableStatusCodes
    THEN LET secs == ParseDuration(resp.retryAfter)
             date == ParseRFC1123(resp.retryAfter)
         IN  IF resp.retryAfter # <<>> /\ secs.ok
             THEN [retry |-> TRUE, after |-> secs.d]
             ELSE IF resp.retryAfter # <<>> /\ date.ok /\ date.t - t > 0
             THEN [retry |-> TRUE, after |-> (date.t - t) * Second]
             ELSE [retry |-> TRUE, after |-> 0]
    ELSE IF err # NilErr
    THEN IF err.kind \in {"canceled", "deadline"}
         THEN [retry |-> FALSE, after |-> 0]
         ELSE [retry |-> TRUE, after |-> 0]
    ELSE [retry |-> FALSE, after |-> 0]

\* Jitters with the whole range reached, its end included.
Jitters_Closed(backoff, policy) ==
    {0} \cup {a \in 1..Max(backoff, 0) : a * policy.Jitter[2] <= backoff * policy.Jitter[1]}

\* Jitters up to the whole backoff, whatever the policy's fraction.
Jitters_Full(backoff, policy) == 0..Max(backoff, 0)

\* DoWithOptions, lines 247-248: the values of
\* time.Duration(rand.Float64() * jitterRange * float64(time.Second)),
\* rand.Float64() being in [0, 1).
Jitters(backoff, policy) ==
    {0} \cup {a \in 1..Max(backoff, 0) : a * policy.Jitter[2] < backoff * policy.Jitter[1]}

\* NextBackoff without the cap at MaxBackoff.
NextBackoff_NoCap(backoff, policy) == Times(backoff, policy.BackoffMultiplier)

\* DoWithOptions, lines 259-262: the backoff of the next round.
NextBackoff(backoff, policy) ==
    LET b == Times(backoff, policy.BackoffMultiplier)
    IN  IF b > policy.MaxBackoff THEN policy.MaxBackoff ELSE b

\* --------------------------------------------------------- the executor

\* The states of a context.Context: not done, cancelled, or past its deadline.
ContextStates == {"live", "canceled", "deadline"}

\* RequestOptions: nil, or DisableRetries set or not; Context is "nil", or
\* the state of the context given.
NilOpts == [nil |-> TRUE, DisableRetries |-> FALSE, Context |-> "nil"]
\* Options without a Context (Do passes nil options).
RequestOptionsSet ==
    {NilOpts} \cup {[nil |-> FALSE, DisableRetries |-> d, Context |-> "nil"] : d \in BOOLEAN}
\* Options with a Context (DoContext passes only a Context).
ContextOptionsSet ==
    {[nil |-> FALSE, DisableRetries |-> d, Context |-> c] : d \in BOOLEAN, c \in ContextStates}
\* req.GetBody: nil, a function that returns the body, or one that fails.
GetBodies == {"nil", "ok", "fail"}
\* The requests handed to DoWithOptions: without a body, or with one and any
\* GetBody (http.NewRequest sets GetBody for the bodies it knows, as those of
\* newRequestWithContext; for any other reader it leaves it nil).
Requests ==
    {[body |-> FALSE, getBody |-> "nil"]} \cup {[body |-> TRUE, getBody |-> g] : g \in GetBodies}
\* What is left to send of a body that a previous attempt has read.
ConsumedBodies == {"empty", "partial"}

NoExec ==
    [opts |-> NilOpts, body |-> FALSE, getBody |-> "nil", single |-> FALSE, retries |-> 0,
     backoff |-> 0, resp |-> NilResp, err |-> NilErr, sleep |-> "none",
     attempts |-> 0, lead |-> 0, okAt |-> 0, hinted |-> 0,
     waits |-> 0, at |-> 0, sent |-> "none", delays |-> <<>>,
     follows |-> "request", shadow |-> "nil",
     last |-> [resp |-> NilResp, err |-> NilErr],
     exit |-> "none", ret |-> [resp |-> NilResp, err |-> NilErr]]

\* ex[p] beyond the code's own locals: attempts counts the doOnce calls, last
\* is what the latest returned, lead counts the leading attempts answered
\* with a status the policy retries, okAt is the attempt that followed them
\* with a 2xx response and no error, hinted counts the waits that used a
\* Retry-After delay, exit is the return statement that ended the call,
\* waits counts the rateLimiter.Wait calls, at is the instant the latest
\* attempt was answered, sent is the body the attempt in flight (or the latest)
\* carries: "none", "full", or what is left of a body already read, delays
\* lists the waits before the retries.  follows names the context the call
\* holds in ctx, the request's or the options', whose state is ctx[p]; shadow
\* is the state of the other one ("nil" when the options have none).

\* RetriesDisabled without the per-call option.
RetriesDisabled_IgnoresOpts(c, opts) == c.disableRetries \/ c.retryPolicy.nil

\* RetriesDisabled with the per-call option, when given, taken in place of
\* the client's flag.
RetriesDisabled_OptsOverride(c, opts) ==
    LET disableRetries == IF ~opts.nil THEN opts.DisableRetries ELSE c.disableRetries
    IN  disableRetries \/ c.retryPolicy.nil

\* DoWithOptions, lines 200-209: retries are off for this call.
RetriesDisabled(c, opts) ==
    LET disableRetries == IF ~opts.nil /\ opts.DisableRetries THEN TRUE ELSE c.disableRetries
    IN  disableRetries \/ c.retryPolicy.nil

\* Begin with the running backoff kept on the client: a call starts from the
\* backoff another call in progress has reached.
Begin_SharedBackoff(e) ==
    LET sent    == IF e.body THEN "full" ELSE "none"
        running == {ex[q].backoff : q \in Procs} \ {0}
    IN  IF RetriesDisabled(client, e.opts)
        THEN [e EXCEPT !.single = TRUE, !.sent = sent]
        ELSE [e EXCEPT !.single = FALSE, !.sent = sent,
                       !.backoff = IF running = {} THEN client.retryPolicy.InitialBackoff
                                   ELSE CHOOSE b \in running : \A c \in running : c <= b]

\* DoWithOptions, lines 200-221: past the limiter; the first attempt is sent.
Begin(e) ==
    LET sent == IF e.body THEN "full" ELSE "none"
    IN  IF RetriesDisabled(client, e.opts)
        THEN [e EXCEPT !.single = TRUE, !.sent = sent]
        ELSE [e EXCEPT !.single = FALSE, !.sent = sent,
                       !.backoff = client.retryPolicy.InitialBackoff]

\* EffectiveContext with the options' Context never taken.
EffectiveContext_RequestOnly(reqCtx, opts) ==
    [follows |-> "request", state |-> reqCtx, shadow |-> opts.Context]

\* DoWithOptions, lines 186-189: ctx is opts.Context when the options have
\* one and the request's context otherwise.  reqCtx and opts.Context are the
\* states of the two contexts; shadow is the state of the one not taken.
EffectiveContext(reqCtx, opts) ==
    IF ~opts.nil /\ opts.Context # "nil"
    THEN [follows |-> "override", state |-> opts.Context, shadow |-> reqCtx]
    ELSE [follows |-> "request", state |-> reqCtx, shadow |-> opts.Context]

\* DoWithOptions(req, v, opts) is called by p (lines 185-198) with a request
\* whose context is in state reqCtx; either context may be done already.
DoWithOptions(p, req, reqCtx, opts) ==
    LET c == EffectiveContext(reqCtx, opts)
        e == [NoExec EXCEPT !.opts = opts, !.body = req.body, !.getBody = req.getBody,
                            !.follows = c.follows, !.shadow = c.shadow,
                            !.waits = IF client.rateLimiter THEN 1 ELSE 0]
    IN  /\ calls' = calls + 1
        /\ ctx' = [ctx EXCEPT ![p] = c.state]
        /\ call' = [call EXCEPT ![p] = [NoCall EXCEPT !.arr = calls + 1, !.arrAt = now,
                                                     !.cancelAt = IF c.state = "live" THEN -1 ELSE now]]
        /\ IF client.rateLimiter
           THEN /\ ex' = [ex EXCEPT ![p] = e]
                /\ pc' = [pc EXCEPT ![p] = "lock"]
           ELSE /\ ex' = [ex EXCEPT ![p] = Begin(e)]
                /\ pc' = [pc EXCEPT ![p] = "doOnce"]
        /\ UNCHANGED <<now, limiter, mutex, waitErr, timer, nAcq, admits, client, server>>

\* A call of Do, or of DoWithOptions with options that have no Context: the
\* request's context is the only one.
Execute(p) ==
    /\ pc[p] = "idle"
    /\ calls < MaxExecutes
    /\ \E o \in RequestOptionsSet, req \in Requests, c \in ContextStates :
          DoWithOptions(p, req, c, o)

\* A call of DoContext, or of DoWithOptions with options that have a Context,
\* on a request with a context of its own.
ExecuteContext(p) ==
    /\ pc[p] = "idle"
    /\ calls < MaxExecutes
    /\ \E o \in ContextOptionsSet, req \in Requests, c \in ContextStates :
          DoWithOptions(p, req, c, o)

\* A call of Do made by one of several goroutines that share the client, for
\* a request without a body whose context is not done yet.
ExecuteShared(p) ==
    /\ pc[p] = "idle"
    /\ calls < MaxConcurrent
    /\ \E req \in {r \in Requests : ~r.body} : DoWithOptions(p, req, "live", NilOpts)

\* The context that the call does not hold in ctx is cancelled, or its
\* deadline passes, while the call is in progress.
CancelOther(p) ==
    /\ pc[p] \in {"lock", "blocked", "doOnce", "sleep"}
    /\ ex[p].shadow = "live"
    /\ \E c \in {"canceled", "deadline"} : ex' = [ex EXCEPT ![p].shadow = c]
    /\ UNCHANGED <<now, limiter, mutex, pc, ctx, waitErr, timer, call, calls, nAcq, admits,
                   client, server>>

\* The error of Wait never seen.
WaitFailed_Never(err) == FALSE

\* DoWithOptions, line 195: err != nil.
WaitFailed(err) == err # "nil"

\* DoWithOptions, lines 195-197: rateLimiter.Wait returned.
AfterWait(p) ==
    /\ pc[p] = "waitret"
    /\ IF WaitFailed(waitErr[p])
       THEN /\ ex' = [ex EXCEPT ![p].ret = [resp |-> NilResp, err |-> ContextError(waitErr[p])],
                                 ![p].exit = "limiter"]
            /\ pc' = [pc EXCEPT ![p] = "done"]
       ELSE /\ ex' = [ex EXCEPT ![p] = Begin(@)]
            /\ pc' = [pc EXCEPT ![p] = "doOnce"]
    /\ UNCHANGED <<now, limiter, mutex, ctx, waitErr, timer, call, calls, nAcq, admits, client, server>>

\* The status of an attempt is one the policy retries.
RetryableStatus(r, policy) ==
    r.resp # NilResp /\ r.resp.status \in policy.RetryableStatusCodes

\* c.doOnce returns (lines 208, 221, 278): the transport has answered.
Attempt(p) ==
    /\ pc[p] = "doOnce"
    /\ \E out \in TransportOutcomes :
          LET r == doOnce(out, ctx[p])
              e == ex[p]
              n == e.attempts + 1
              f == [e EXCEPT !.attempts = n, !.last = r, !.at = now,
                             !.lead = IF e.lead = n - 1 /\ RetryableStatus(r, client.retryPolicy)
                                      THEN n ELSE @,
                             !.okAt = IF e.okAt = 0 /\ e.lead = n - 1 /\ r.err = NilErr
                                            /\ Is2xx(r.resp.status)
                                      THEN n ELSE @]
          IN  IF e.single
              THEN /\ ex' = [ex EXCEPT ![p] = [f EXCEPT !.ret = r, !.exit = "single"]]
                   /\ pc' = [pc EXCEPT ![p] = "done"]
              ELSE /\ ex' = [ex EXCEPT ![p] = [f EXCEPT !.resp = r.resp, !.err = r.err,
                                                        !.retries = IF n = 1 THEN 0 ELSE @ + 1]]
                   /\ pc' = [pc EXCEPT ![p] = "loop"]
    /\ UNCHANGED <<now, limiter, mutex, ctx, waitErr, timer, call, calls, nAcq, admits, client, server>>

\* MayRetry with the bound off by one.
MayRetry_OffByOne(retries, policy) == retries <= policy.MaxRetries

\* Line 224: the loop condition.
MayRetry(retries, policy) == retries < policy.MaxRetries

\* LoopResult with a failure after retries wrapped in a new error.
LoopResult_Wrapped(e) ==
    [resp |-> e.resp,
     err  |-> IF e.retries > 0 /\ e.err # NilErr
              THEN [kind |-> "gaveup", status |-> e.retries] ELSE e.err]

\* Line 281: what the call returns when the loop is left.
LoopResult(e) == [resp |-> e.resp, err |-> e.err]

\* The explicit delay taken for any hint but zero.
UseRetryAfter_NonZero(retryAfter) == retryAfter # 0

\* Line 236: the Retry-After delay is used when it is positive.
UseRetryAfter(retryAfter) == retryAfter > 0

\* A wait before a retry, as recorded in ex[p].delays: its kind, its
\* duration and the running backoff when it began.
Delay(kind, waitTime, e) == [kind |-> kind, d |-> waitTime, backoff |-> e.backoff]

\* The retry loop, lines 224-256: leave it, or start the wait before the retry.
Loop(p) ==
    /\ pc[p] = "loop"
    /\ LET e == ex[p]
           policy == client.retryPolicy
           sr == shouldRetry(e.resp, e.err, policy, now)
       IN  IF MayRetry(e.retries, policy) /\ sr.retry
           THEN /\ pc' = [pc EXCEPT ![p] = "sleep"]
                /\ IF UseRetryAfter(sr.after)
                   THEN LET waitTime == sr.after \div Second
                        IN  /\ timer' = [timer EXCEPT ![p] = now + waitTime]
                            /\ ex' = [ex EXCEPT ![p].sleep = "retryAfter", ![p].hinted = @ + 1,
                                                 ![p].delays = Append(@, Delay("retryAfter", waitTime, e))]
                   ELSE \E jitter \in Jitters(e.backoff, policy) :
                        LET waitTime == e.backoff - jitter
                        IN  /\ timer' = [timer EXCEPT ![p] = now + waitTime]
                            /\ ex' = [ex EXCEPT ![p].sleep = "backoff",
                                                 ![p].delays = Append(@, Delay("backoff", waitTime, e))]
           ELSE /\ ex' = [ex EXCEPT ![p].ret = LoopResult(e), ![p].exit = "loop"]
                /\ pc' = [pc EXCEPT ![p] = "done"]
                /\ UNCHANGED timer
    /\ UNCHANGED <<now, limiter, mutex, ctx, waitErr, call, calls, nAcq, admits, client, server>>

\* Lines 240-241, 252-253: the context is done during the wait.
SleepCancelled(p) ==
    /\ pc[p] = "sleep"
    /\ ctx[p] # "live"
    /\ ex' = [ex EXCEPT ![p].ret = [resp |-> ex[p].resp, err |-> ContextError(ctx[p])],
                         ![p].exit = "cancelled"]
    /\ pc' = [pc EXCEPT ![p] = "done"]
    /\ UNCHANGED <<now, limiter, mutex, ctx, waitErr, timer, call, calls, nAcq, admits, client, server>>

\* Lines 265-275: the body of the retry request.  req.Clone copies the
\* request with the Body it has, which the previous attempt has read; it is
\* replaced only when GetBody is set.
RetryBodies(e) ==
    IF e.getBody = "ok" THEN {"full"}
    ELSE IF e.body THEN ConsumedBodies
    ELSE {"none"}

\* The backoff grown after every wait, the waits on Retry-After included.
AdvanceBackoff_Always(e, policy) == NextBackoff(e.backoff, policy)

\* Lines 236-263: the backoff after the wait e.sleep: grown in the branch of
\* the computed wait, left alone in the branch of the Retry-After delay.
AdvanceBackoff(e, policy) ==
    IF e.sleep = "backoff" THEN NextBackoff(e.backoff, policy) ELSE e.backoff

\* Lines 242, 254-278: the wait is over; the backoff grows after a computed
\* wait, the request is cloned, its body re-obtained, and the retry is sent.
SleepOver(p) ==
    /\ pc[p] = "sleep"
    /\ now >= timer[p]
    /\ LET e == ex[p]
           f == [e EXCEPT !.sleep = "none", !.backoff = AdvanceBackoff(e, client.retryPolicy)]
       IN  IF e.getBody = "fail"
           THEN /\ ex' = [ex EXCEPT ![p] = [f EXCEPT !.ret = [resp |-> e.resp, err |-> GetBodyError],
                                                    !.exit = "getbody"]]
                /\ pc' = [pc EXCEPT ![p] = "done"]
           ELSE /\ \E sent \in RetryBodies(e) : ex' = [ex EXCEPT ![p] = [f EXCEPT !.sent = sent]]
                /\ pc' = [pc EXCEPT ![p] = "doOnce"]
    /\ UNCHANGED <<now, limiter, mutex, ctx, waitErr, timer, call, calls, nAcq, admits, client, server>>

\* DoWithOptions has returned ex[p].ret to its caller.
Return(p) ==
    /\ pc[p] = "done"
    /\ pc' = [pc EXCEPT ![p] = "idle"]
    /\ ex' = [ex EXCEPT ![p] = NoExec]
    /\ ctx' = [ctx EXCEPT ![p] = "live"]
    /\ waitErr' = [waitErr EXCEPT ![p] = "nil"]
    /\ timer' = [timer EXCEPT ![p] = 0]
    /\ call' = [call EXCEPT ![p] = NoCall]
    /\ UNCHANGED <<now, limiter, mutex, calls, nAcq, admits, client, server>>

\* ------------------------------------------------------------------ the clock

\* SelectReady with a done context not waking a select.
SelectReady_TimerOnly(p) ==
    \/ pc[p] \in {"blocked", "sleep"} /\ now >= timer[p]
    \/ pc[p] = "lock" /\ mutex = NoProc
    \/ pc[p] \in {"waitret", "doOnce", "loop", "done"}

\* The clock advances only when no caller has a step to take at once: a
\* select with a ready case returns, a free mutex is taken, a returning call
\* hands over its result, and the transport answers, within the tick.
SelectReady(p) ==
    \/ pc[p] \in {"blocked", "sleep"} /\ (now >= timer[p] \/ ctx[p] # "live")
    \/ pc[p] = "lock" /\ mutex = NoProc
    \/ pc[p] \in {"waitret", "doOnce", "loop", "done"}

Tick ==
    /\ now < MaxTime
    /\ \A p \in Procs : ~SelectReady(p)
    /\ now' = now + 1
    /\ UNCHANGED <<limiter, mutex, pc, ctx, waitErr, timer, call, calls, nAcq, admits, client, server, ex>>

\* Time passes after the last instant of the clock: every pending timer is a
\* second nearer, and the limiter's last refill a second further back, as
\* long as that still adds to the refill (below maxTokens).
Elapse ==
    /\ now = MaxTime
    /\ \A p \in Procs : ~SelectReady(p)
    /\ \E p \in Procs : pc[p] \in {"blocked", "sleep"}
    /\ timer' = [p \in Procs |->
                    IF pc[p] \in {"blocked", "sleep"} THEN timer[p] - 1 ELSE timer[p]]
    /\ limiter' = IF Refill(limiter, now).tokens < limiter.maxTokens
                  THEN [limiter EXCEPT !.lastRefillTime = @ - 1] ELSE limiter
    /\ UNCHANGED <<now, mutex, pc, ctx, waitErr, call, calls, nAcq, admits, client, server, ex>>

\* ------------------------------------------------------- the specifications

InitCallers ==
    /\ now = 0
    /\ mutex = NoProc
    /\ pc = [p \in Procs |-> "idle"]
    /\ ctx = [p \in Procs |-> "live"]
    /\ waitErr = [p \in Procs |-> "nil"]
    /\ timer = [p \in Procs |-> 0]
    /\ call = [p \in Procs |-> NoCall]
    /\ calls = 0
    /\ nAcq = 0
    /\ admits = <<>>
    /\ ex = [p \in Procs |-> NoExec]

\* Callers of a limiter of their own: no client.
InitLimiter ==
    /\ InitCallers
    /\ \E r \in Rates, b \in Bursts : limiter = NewTokenBucketRateLimiter(r, b, 0)
    /\ client = NewClientWithOptions(
                   [RateLimiter |-> FALSE, RetryPolicy |-> NilPolicy, DisableRetries |-> TRUE])
    /\ server = {<<>>}

NextLimiter ==
    \/ \E p \in Procs : CallWait(p)
    \/ \E p \in Procs : Acquire(p)
    \/ \E p \in Procs : TimerFires(p)
    \/ \E p \in Procs : CtxDone(p)
    \/ \E p \in Procs : Cancel(p)
    \/ \E p \in Procs : WaitReturns(p)
    \/ Tick

SpecLimiter == InitLimiter /\ [][NextLimiter]_vars

\* The arguments NewTokenBucketRateLimiter is called with: out of range (zero
\* or negative) or one token per second, and a burst of one.
ConstructRates == {0 - Scale, 0, Scale}
ConstructBursts == {-1, 0, 1}

\* Callers of a limiter constructed with any of these arguments.
InitConstruct ==
    /\ InitCallers
    /\ \E r \in ConstructRates, b \in ConstructBursts :
          limiter = NewTokenBucketRateLimiter(r, b, 0)
    /\ client = NewClientWithOptions(
                   [RateLimiter |-> FALSE, RetryPolicy |-> NilPolicy, DisableRetries |-> TRUE])
    /\ server = {<<>>}

SpecConstruct == InitConstruct /\ [][NextLimiter]_vars

\* One caller of a client, constructed with any options.
Callers == {"p1"}

\* The client's limiter, when it has one, was constructed and may have been
\* used before instant 0, when it last accounted its tokens: any number of
\* them is left.
Init ==
    /\ InitCallers
    /\ server = RetryAfterHeaders
    /\ \E options \in ClientOptionsSet :
          /\ client = NewClientWithOptions(options)
          /\ \E r \in Rates, used \in 0..Scale :
                /\ options.RateLimiter \/ (r = Scale /\ used = 0)
                /\ limiter = [NewTokenBucketRateLimiter(r, 1, 0) EXCEPT !.tokens = @ - (used \div r) * r]

Next ==
    \/ \E p \in Callers : Execute(p)
    \/ \E p \in Callers : Acquire(p)
    \/ \E p \in Callers : TimerFires(p)
    \/ \E p \in Callers : CtxDone(p)
    \/ \E p \in Callers : AfterWait(p)
    \/ \E p \in Callers : Attempt(p)
    \/ \E p \in Callers : Loop(p)
    \/ \E p \in Callers : SleepCancelled(p)
    \/ \E p \in Callers : SleepOver(p)
    \/ \E p \in Callers : Cancel(p)
    \/ \E p \in Callers : Return(p)
    \/ Tick

Spec == Init /\ [][Next]_vars

\* Policies whose backoff is cut at MaxBackoff at once, or grows from 2 to 8
\* seconds with no jitter, with a jitter of a half, and with a jitter of one.
BackoffPolicies ==
    {[nil |-> FALSE, MaxRetries |-> MaxRetriesBound, RetryableStatusCodes |-> {429},
      InitialBackoff |-> 1, MaxBackoff |-> 1,
      BackoffMultiplier |-> <<2, 1>>, Jitter |-> <<0, 1>>]}
    \cup {[nil |-> FALSE, MaxRetries |-> MaxRetriesBound, RetryableStatusCodes |-> {429},
           InitialBackoff |-> 2, MaxBackoff |-> 8,
           BackoffMultiplier |-> <<2, 1>>, Jitter |-> j] :
             j \in {<<0, 1>>, <<1, 2>>, <<1, 1>>}}

\* A call of Do, or of DoWithOptions with options that have no Context, with
\* a request that has no body: the waits before the retries do not depend on
\* the body.
ExecuteNoBody(p) ==
    /\ pc[p] = "idle"
    /\ calls < MaxExecutes
    /\ \E o \in RequestOptionsSet, req \in {r \in Requests : ~r.body}, c \in ContextStates :
          DoWithOptions(p, req, c, o)

\* One caller of a client with no limiter and one of these policies, and a
\* server that answers 429 with a Retry-After value of any form; its requests
\* have no body.
InitRetry ==
    /\ InitCallers
    /\ server = OddRetryAfterHeaders
    /\ limiter = NewTokenBucketRateLimiter(Scale, 1, 0)
    /\ \E q \in BackoffPolicies :
          client = NewClientWithOptions(
                      [RateLimiter |-> FALSE, RetryPolicy |-> q, DisableRetries |-> FALSE])

NextRetry ==
    \/ \E p \in Callers : ExecuteNoBody(p)
    \/ \E p \in Callers : Attempt(p)
    \/ \E p \in Callers : Loop(p)
    \/ \E p \in Callers : SleepCancelled(p)
    \/ \E p \in Callers : SleepOver(p)
    \/ \E p \in Callers : Cancel(p)
    \/ \E p \in Callers : Return(p)
    \/ Tick

SpecRetry == InitRetry /\ [][NextRetry]_vars

\* One caller of a client with or without a limiter and with a policy of one
\* retry; its calls are made with and without a Context in the options, and
\* both the request's context and the options' can be done at any time.
InitContext ==
    /\ InitCallers
    /\ server = RetryAfterHeaders
    /\ \E options \in {o \in ClientOptionsSet :
                          ~o.DisableRetries /\ ~o.RetryPolicy.nil /\ o.RetryPolicy.MaxRetries = 1
                          /\ o.RetryPolicy.Jitter[1] = 0} :
          /\ client = NewClientWithOptions(options)
          /\ \E r \in Rates, used \in 0..Scale :
                /\ options.RateLimiter \/ (r = Scale /\ used = 0)
                /\ limiter = [NewTokenBucketRateLimiter(r, 1, 0) EXCEPT !.tokens = @ - (used \div r) * r]

NextContext ==
    \/ \E p \in Callers : Execute(p)
    \/ \E p \in Callers : ExecuteContext(p)
    \/ \E p \in Callers : Acquire(p)
    \/ \E p \in Callers : TimerFires(p)
    \/ \E p \in Callers : CtxDone(p)
    \/ \E p \in Callers : AfterWait(p)
    \/ \E p \in Callers : Attempt(p)
    \/ \E p \in Callers : Loop(p)
    \/ \E p \in Callers : SleepCancelled(p)
    \/ \E p \in Callers : SleepOver(p)
    \/ \E p \in Callers : Cancel(p)
    \/ \E p \in Callers : CancelOther(p)
    \/ \E p \in Callers : Return(p)
    \/ Tick

SpecContext == InitContext /\ [][NextContext]_vars

\* The policy of a shared client: one retry, after a backoff of 2 seconds
\* that grows to 4.
SharedPolicies ==
    {[nil |-> FALSE, MaxRetries |-> 1, RetryableStatusCodes |-> {429},
      InitialBackoff |-> 2, MaxBackoff |-> 4,
      BackoffMultiplier |-> <<2, 1>>, Jitter |-> <<0, 1>>]}

\* Two goroutines share a client with a limiter of one token per second and
\* a burst of one, and a policy of one retry; the server sends no Retry-After.
InitShared ==
    /\ InitCallers
    /\ server = {<<>>}
    /\ \E q \in SharedPolicies :
          client = NewClientWithOptions(
                      [RateLimiter |-> TRUE, RetryPolicy |-> q, DisableRetries |-> FALSE])
    /\ limiter = NewTokenBucketRateLimiter(Scale, 1, 0)

NextShared ==
    \/ \E p \in Procs : ExecuteShared(p)
    \/ \E p \in Procs : Acquire(p)
    \/ \E p \in Procs : TimerFires(p)
    \/ \E p \in Procs : CtxDone(p)
    \/ \E p \in Procs : AfterWait(p)
    \/ \E p \in Procs : Attempt(p)
    \/ \E p \in Procs : Loop(p)
    \/ \E p \in Procs : SleepCancelled(p)
    \/ \E p \in Procs : SleepOver(p)
    \/ \E p \in Procs : Cancel(p)
    \/ \E p \in Procs : Return(p)
    \/ Tick

SpecShared == InitShared /\ [][NextShared]_vars

\* The shared client at the last instant of the clock, its limiter with its
\* token left or just taken: from there on time is kept by what is left of
\* each timer and by the age of the limiter's last refill.
InitLive ==
    /\ now = MaxTime
    /\ mutex = NoProc
    /\ pc = [p \in Procs |-> "idle"]
    /\ ctx = [p \in Procs |-> "live"]
    /\ waitErr = [p \in Procs |-> "nil"]
    /\ timer = [p \in Procs |-> 0]
    /\ call = [p \in Procs |-> NoCall]
    /\ calls = 0
    /\ nAcq = 0
    /\ admits = <<>>
    /\ ex = [p \in Procs |-> NoExec]
    /\ server = {<<>>}
    /\ \E q \in SharedPolicies :
          client = NewClientWithOptions(
                      [RateLimiter |-> TRUE, RetryPolicy |-> q, DisableRetries |-> FALSE])
    /\ \E used \in {0, Scale} :
          limiter = [NewTokenBucketRateLimiter(Scale, 1, MaxTime) EXCEPT !.tokens = @ - used]

NextLive ==
    \/ \E p \in Procs : ExecuteShared(p)
    \/ \E p \in Procs : Acquire(p)
    \/ \E p \in Procs : TimerFires(p)
    \/ \E p \in Procs : CtxDone(p)
    \/ \E p \in Procs : AfterWait(p)
    \/ \E p \in Procs : Attempt(p)
    \/ \E p \in Procs : Loop(p)
    \/ \E p \in Procs : SleepCancelled(p)
    \/ \E p \in Procs : SleepOver(p)
    \/ \E p \in Procs : Cancel(p)
    \/ \E p \in Procs : Return(p)
    \/ Elapse

\* Every step of a call that is enabled is taken: the transport answers
\* (Attempt), timers fire as time passes (Elapse, TimerFires, SleepOver), a
\* select with a done context returns (CtxDone, SleepCancelled), and the
\* goroutine runs on (AfterWait, Loop, Return).  The mutex is fair: a caller
\* that finds it free again and again takes it (sync.Mutex hands the lock to
\* a waiter that has waited for 1 ms).
Fairness ==
    /\ WF_vars(Elapse)
    /\ \A p \in Procs :
          /\ SF_vars(Acquire(p))
          /\ WF_vars(TimerFires(p))
          /\ WF_vars(CtxDone(p))
          /\ WF_vars(AfterWait(p))
          /\ WF_vars(Attempt(p))
          /\ WF_vars(Loop(p))
          /\ WF_vars(SleepCancelled(p))
          /\ WF_vars(SleepOver(p))
          /\ WF_vars(Return(p))

SpecLive == InitLive /\ [][NextLive]_vars /\ Fairness

\* ------------------------------------------------- claims on the executor

\* The call of p is made with retries enabled: the client was constructed
\* with retries on and a policy, and the per-call option does not disable them.
RetriesEnabled(p) ==
    /\ ~client.disableRetries
    /\ ~client.retryPolicy.nil
    /\ ~ex[p].opts.DisableRetries

\* The limiter, if any, admitted the call of p.
Admitted(p) == waitErr[p] = "nil"

\* The latest attempt of p was answered with a non-2xx status that the policy
\* does not retry.
LastNonRetryableStatus(p) ==
    /\ ex[p].attempts >= 1
    /\ ex[p].last.err.kind = "api"
    /\ ex[p].last.resp.status \notin client.retryPolicy.RetryableStatusCodes

\* C1: with retries enabled and MaxRetries >= 1, an attempt answered with a
\* non-2xx status outside RetryableStatusCodes is the last one: no further
\* attempt is sent after it, and the loop is left with its APIError.
C1_NonRetryableStatusIsTerminal ==
    \A p \in Procs :
        (RetriesEnabled(p) /\ client.retryPolicy.MaxRetries >= 1 /\ LastNonRetryableStatus(p))
        => /\ pc[p] # "doOnce"
           /\ (pc[p] = "done" /\ ex[p].exit = "loop")
              => ex[p].ret.err = APIError(ex[p].last.resp.status)

\* C2: with retries enabled, when the first k attempts are answered with a
\* retryable status and attempt k+1 with a 2xx response that decodes, the call
\* makes exactly k+1 attempts and returns that response with no error.
C2_RetryThenSuccess ==
    \A p \in Procs :
        (RetriesEnabled(p) /\ ex[p].okAt # 0)
        => /\ ex[p].okAt = ex[p].lead + 1
           /\ ex[p].lead <= client.retryPolicy.MaxRetries
           /\ ex[p].attempts = ex[p].okAt
           /\ pc[p] \in {"loop", "done"}
           /\ pc[p] = "done" => (ex[p].ret.err = NilErr /\ Is2xx(ex[p].ret.resp.status))

\* C2 witness: MaxRetries retryable answers, then a success, returned.
C2_Witness ==
    \E p \in Procs :
        /\ pc[p] = "done"
        /\ RetriesEnabled(p)
        /\ client.retryPolicy.MaxRetries = 2
        /\ ex[p].lead = 2
        /\ ex[p].okAt = 3
        /\ ex[p].ret.err = NilErr

\* C3: when retries are disabled, by the client's flag or by the per-call
\* option, a call that reaches the transport makes exactly one attempt,
\* whatever its outcome, and returns that attempt's response and error.
C3_DisabledOneAttempt ==
    \A p \in Procs :
        (client.disableRetries \/ ex[p].opts.DisableRetries)
        => /\ ex[p].attempts <= 1
           /\ pc[p] \notin {"loop", "sleep"}
           /\ (pc[p] = "done" /\ Admitted(p)) => (ex[p].attempts = 1 /\ ex[p].ret = ex[p].last)

\* C3 witness: the per-call option alone disables retries, the only attempt
\* is answered 429, which the client's policy retries, and the call returns.
C3_Witness ==
    \E p \in Procs :
        /\ pc[p] = "done"
        /\ ~client.disableRetries
        /\ ex[p].opts.DisableRetries
        /\ 429 \in client.retryPolicy.RetryableStatusCodes
        /\ client.retryPolicy.MaxRetries >= 1
        /\ ex[p].attempts = 1
        /\ ex[p].ret.err = APIError(429)

\* C4: a call never makes more than 1 + MaxRetries attempts, waits on
\* Retry-After included; with MaxRetries = 0 a call that reaches the
\* transport makes exactly one.
C4_AttemptsBounded ==
    \A p \in Procs :
        /\ ex[p].attempts <= 1 + client.retryPolicy.MaxRetries
        /\ (pc[p] = "done" /\ Admitted(p) /\ client.retryPolicy.MaxRetries = 0)
           => ex[p].attempts = 1

\* C4 witness: a call that used its whole budget, one wait on Retry-After.
C4_Witness ==
    \E p \in Procs :
        /\ pc[p] = "done"
        /\ RetriesEnabled(p)
        /\ client.retryPolicy.MaxRetries = 2
        /\ ex[p].attempts = 3
        /\ ex[p].hinted >= 1
        /\ ex[p].ret.err # NilErr

\* C5: with retries enabled and retries remaining, an attempt whose 2xx
\* response could not be decoded is the last one: no further attempt is sent
\* after it, and the loop is left with the decode error.
C5_DecodeErrorNotRetried ==
    \A p \in Procs :
        (RetriesEnabled(p) /\ ex[p].attempts >= 1 /\ ex[p].last.err = DecodeError)
        => /\ pc[p] # "doOnce"
           /\ (pc[p] = "done" /\ ex[p].exit = "loop") => ex[p].ret.err = DecodeError

\* C6 as claimed: a call that made at least one attempt returns the error of
\* its last attempt, whatever interrupted the retry sequence.
C6_ErrorIsLastAttempts ==
    \A p \in Procs :
        (pc[p] = "done" /\ ex[p].attempts >= 1) => ex[p].ret.err = ex[p].last.err

\* C6 amended: a call that made at least one attempt returns the error of its
\* last attempt, unless it ended between attempts: cancelled during the wait
\* before a retry it returns the context's error, and when the body cannot be
\* re-obtained it returns GetBody's error.
C6_ErrorIsLastAttemptsUnlessInterrupted ==
    \A p \in Procs :
        (pc[p] = "done" /\ ex[p].attempts >= 1)
        => CASE ex[p].exit = "cancelled" ->
                    ctx[p] # "live" /\ ex[p].ret.err = [kind |-> ctx[p], status |-> 0]
             [] ex[p].exit = "getbody" ->
                    ex[p].getBody = "fail" /\ ex[p].ret.err.kind = "getbody"
             [] OTHER -> ex[p].ret.err = ex[p].last.err

\* C6 witness: a call returns a failure after retrying.
C6_Witness ==
    \E p \in Procs :
        /\ pc[p] = "done"
        /\ ex[p].attempts >= 2
        /\ ex[p].exit = "loop"
        /\ ex[p].ret.err # NilErr
        /\ ex[p].ret.err = ex[p].last.err

\* The latest attempt of p was answered with a status the policy retries and
\* a Retry-After header of N seconds, N = 1 or 2.
RetryAfterSeconds(p) ==
    IF ex[p].attempts >= 1 /\ RetryableStatus(ex[p].last, client.retryPolicy)
    THEN IF ex[p].last.resp.retryAfter = <<"1">> THEN 1
         ELSE IF ex[p].last.resp.retryAfter = <<"2">> THEN 2 ELSE 0
    ELSE 0

\* C12: an attempt that ends with context.Canceled or
\* context.DeadlineExceeded is the last one, whatever the policy and the
\* retries left: no wait and no attempt follow it, and the call returns that
\* error.
C12_ContextErrorIsTerminal ==
    \A p \in Procs :
        (ex[p].attempts >= 1 /\ ex[p].last.err.kind \in {"canceled", "deadline"})
        => /\ pc[p] \in {"loop", "done"}
           /\ pc[p] = "done" => (ex[p].exit \in {"loop", "single"} /\ ex[p].ret.err = ex[p].last.err)

\* C12 witness: with two retries allowed, the second attempt ends with the
\* deadline's error and the call returns it.
C12_Witness ==
    \E p \in Procs :
        /\ pc[p] = "done"
        /\ RetriesEnabled(p)
        /\ client.retryPolicy.MaxRetries = 2
        /\ ex[p].attempts = 2
        /\ ex[p].last.err.kind = "deadline"
        /\ ex[p].ret.err.kind = "deadline"

\* C13: when the context is done during the wait before a retry, before the
\* wait's timer is due, the call returns the context's error at that instant
\* (at the start of the wait, if the context was done before), with the
\* attempts made so far; no retry is ever sent after a wait during which the
\* context was done before the timer was due.
C13_CancelledBackoffAborts ==
    \A p \in Procs :
        /\ (pc[p] = "done" /\ ex[p].exit = "cancelled")
           => /\ ctx[p] # "live"
              /\ ex[p].ret.err = [kind |-> ctx[p], status |-> 0]
              /\ call[p].cancelAt < timer[p] => now = Max(call[p].cancelAt, ex[p].at)
        /\ (ex[p].attempts >= 1 /\ call[p].cancelAt >= 0 /\ call[p].cancelAt < timer[p])
           => pc[p] # "doOnce"

\* C13 witness: a wait of two ticks was cut short by a cancellation one tick
\* into it.
C13_Witness ==
    \E p \in Procs :
        /\ pc[p] = "done"
        /\ ex[p].exit = "cancelled"
        /\ call[p].cancelAt = ex[p].at + 1
        /\ timer[p] = ex[p].at + 2
        /\ now = call[p].cancelAt
        /\ ex[p].ret.err.kind = "canceled"

\* C14: when the limiter's Wait returns the context's error, the call makes
\* no attempt and returns that error with no response.
C14_LimiterCancelMakesNoAttempt ==
    \A p \in Procs :
        waitErr[p] # "nil"
        => /\ ex[p].attempts = 0
           /\ pc[p] \in {"waitret", "done"}
           /\ pc[p] = "done"
              => /\ ex[p].exit = "limiter"
                 /\ ex[p].ret.resp = NilResp
                 /\ ex[p].ret.err = [kind |-> waitErr[p], status |-> 0]

\* C14 witness: the call blocked in the limiter, its deadline passed before
\* the token was due, and it returned.
C14_Witness ==
    \E p \in Procs :
        /\ pc[p] = "done"
        /\ client.rateLimiter
        /\ call[p].blocked
        /\ waitErr[p] = "deadline"
        /\ ex[p].ret.err.kind = "deadline"
        /\ ex[p].attempts = 0

\* C15: with retries enabled, an attempt that fails with a transport error
\* other than the context's is retried after the computed backoff: the call
\* does not return at the loop with that error while retries remain, and the
\* wait that follows it is the backoff.
C15_TransportErrorRetried ==
    \A p \in Procs :
        (RetriesEnabled(p) /\ ex[p].attempts >= 1 /\ ex[p].last.err = TransportError)
        => /\ pc[p] = "done"
              => /\ ex[p].exit \in {"loop", "cancelled", "getbody"}
                 /\ ex[p].exit = "loop" => ex[p].attempts = 1 + client.retryPolicy.MaxRetries
           /\ pc[p] = "sleep" => ex[p].sleep = "backoff"

\* C15 witness: after a transport error and the backoff, the second attempt
\* is on its way.
C15_Witness ==
    \E p \in Procs :
        /\ pc[p] = "doOnce"
        /\ RetriesEnabled(p)
        /\ ex[p].attempts = 1
        /\ ex[p].last.err = TransportError
        /\ now = ex[p].at + client.retryPolicy.InitialBackoff

\* C16: after a response with a retryable status and Retry-After: N, N a
\* positive number of seconds, the wait is N seconds, not the backoff, and the
\* next attempt is sent no sooner than N seconds after that response.
C16_RetryAfterIsHonoured ==
    \A p \in Procs :
        RetryAfterSeconds(p) > 0
        => /\ pc[p] = "sleep"
              => (ex[p].sleep = "retryAfter" /\ timer[p] = ex[p].at + RetryAfterSeconds(p))
           /\ pc[p] = "doOnce" => now >= ex[p].at + RetryAfterSeconds(p)

\* C16 witness: Retry-After: 2 with an initial backoff of one second; the
\* retry is sent two seconds after the response.
C16_Witness ==
    \E p \in Procs :
        /\ pc[p] = "doOnce"
        /\ ex[p].attempts = 1
        /\ RetryAfterSeconds(p) = 2
        /\ client.retryPolicy.InitialBackoff = 1
        /\ now = ex[p].at + 2

\* C17: when a limiter is configured, every attempt, retries included, is
\* preceded by a Wait call of its own: the attempts sent never outnumber the
\* Wait calls made.
C17_WaitBeforeEachAttempt ==
    \A p \in Procs :
        client.rateLimiter
        => ex[p].attempts + (IF pc[p] = "doOnce" THEN 1 ELSE 0) <= ex[p].waits

\* C20: every attempt of a request that has a body, the first and each retry,
\* is sent with the full body.
C20_RetriesSendFullBody ==
    \A p \in Procs :
        (ex[p].body /\ pc[p] = "doOnce") => ex[p].sent = "full"

\* The clients that NewClientWithOptions makes of options with no policy.
DefaultsAtConstruction ==
    \A o \in ClientOptionsSet :
        o.RetryPolicy.nil
        => LET c == NewClientWithOptions(o)
           IN  /\ c.disableRetries = o.DisableRetries
               /\ c.rateLimiter = o.RateLimiter
               /\ o.DisableRetries => c.retryPolicy.nil
               /\ ~o.DisableRetries
                  => c.retryPolicy
                       = [nil |-> FALSE, MaxRetries |-> 3,
                          RetryableStatusCodes |-> {429, 500, 502, 503, 504},
                          InitialBackoff |-> 1, MaxBackoff |-> 30,
                          BackoffMultiplier |-> <<2, 1>>, Jitter |-> <<1, 5>>]

C24_ContextErrorPreferred ==
    \A p \in Procs :
        (ex[p].attempts >= 1 /\ ex[p].last.resp = NilResp
            /\ (pc[p] = "loop" \/ (pc[p] = "done" /\ ex[p].exit \in {"single", "loop"})))
        => ex[p].last.err = IF ctx[p] = "live" THEN TransportError
                            ELSE [kind |-> ctx[p], status |-> 0]

\* C24 witness: the only attempt of a call failed after the deadline of its
\* context, and the call returned context.DeadlineExceeded.
C24_Witness ==
    \E p \in Procs :
        /\ pc[p] = "done"
        /\ ex[p].exit = "single"
        /\ ex[p].attempts = 1
        /\ ctx[p] = "deadline"
        /\ ex[p].last.resp = NilResp
        /\ ex[p].ret.err = [kind |-> "deadline", status |-> 0]

\* ------------------------------------- claims on the waits before retries

\* The header is a count of seconds: digits, with or without a sign.
IntegerSeconds(h) ==
    LET body == IF h # <<>> /\ h[1] \in {"-", "+"} THEN Tail(h) ELSE h
    IN  body # <<>> /\ IsDigits(body)

\* The header is an HTTP date.
HTTPDate(h) == Len(h) >= 2 /\ h[1] = "D" /\ IsDigits(Tail(h))

\* The header is a hint that is not in the future at instant t: zero seconds,
\* a negative number of seconds, or a date that is not after t.
NotInFuture(h, t) ==
    \/ h \in {<<"0">>, <<"-", "1">>}
    \/ h = <<"D", "0">> /\ t >= 0

\* The call of p is in, or has just finished, the wait that answers the
\* response ex[p].resp.
InWait(p) == pc[p] = "sleep" /\ ex[p].delays # <<>>

\* The latest wait of p.
LastDelay(p) == ex[p].delays[Len(ex[p].delays)]

\* min(backoff * multiplier, maxBackoff), applied k times to initialBackoff.
RECURSIVE BackoffAfter(_, _)
BackoffAfter(policy, k) ==
    IF k = 0 THEN policy.InitialBackoff
    ELSE Min((BackoffAfter(policy, k - 1) * policy.BackoffMultiplier[1])
                \div policy.BackoffMultiplier[2],
             policy.MaxBackoff)

\* The computed waits of p that are over.
ComputedWaitsOver(p) ==
    Cardinality({i \in 1..Len(ex[p].delays) : ex[p].delays[i].kind = "backoff"})
    - (IF ex[p].sleep = "backoff" THEN 1 ELSE 0)

\* C22: a Retry-After value that is neither a count of seconds nor a date is
\* ignored: the wait that answers it is the computed backoff.
C22_OtherFormsIgnored ==
    \A p \in Procs :
        (InWait(p) /\ ex[p].resp.retryAfter # <<>>
            /\ ~IntegerSeconds(ex[p].resp.retryAfter) /\ ~HTTPDate(ex[p].resp.retryAfter))
        => ex[p].sleep = "backoff"

\* C23: a hint of zero seconds, of a negative number of seconds, or a date
\* not in the future still leads to a retry; the wait is the backoff less the
\* jitter, and the backoff is advanced after it.
C23_HintNotInFutureFallsBack ==
    \A p \in Procs :
        (ex[p].attempts >= 1 /\ NotInFuture(ex[p].resp.retryAfter, now))
        => /\ InWait(p)
              => /\ ex[p].sleep = "backoff"
                 /\ LastDelay(p).kind = "backoff"
                 /\ LastDelay(p).d <= ex[p].backoff
                 /\ LastDelay(p).d * client.retryPolicy.Jitter[2]
                      >= ex[p].backoff * (client.retryPolicy.Jitter[2] - client.retryPolicy.Jitter[1])
           /\ (pc[p] = "doOnce" /\ ex[p].delays # <<>>)
              => ex[p].backoff = Min(2 * LastDelay(p).backoff, client.retryPolicy.MaxBackoff)
           /\ (pc[p] = "done" /\ ex[p].exit = "loop" /\ ex[p].last.resp = ex[p].resp)
              => ex[p].attempts = 1 + client.retryPolicy.MaxRetries

\* C23 witness: a retry is on its way after a 429 with Retry-After: -1; the
\* wait was the backoff of two seconds, which has been doubled.
C23_Witness ==
    \E p \in Procs :
        /\ pc[p] = "doOnce"
        /\ ex[p].attempts = 1
        /\ ex[p].resp.retryAfter = <<"-", "1">>
        /\ LastDelay(p) = [kind |-> "backoff", d |-> 2, backoff |-> 2]
        /\ ex[p].backoff = 4

\* C25: no wait between two attempts of a call is longer than the policy's
\* MaxBackoff, whatever the server answers.
C25_WaitAtMostMaxBackoff ==
    \A p \in Procs :
        \A i \in 1..Len(ex[p].delays) : ex[p].delays[i].d <= client.retryPolicy.MaxBackoff

\* C27 as claimed: of two successive computed waits of a call, the second
\* with the backoff still under MaxBackoff, the second is not the shorter,
\* whatever the jitter.
C27_DelaysNonDecreasing ==
    \A p \in Procs :
        \A i \in 1..(Len(ex[p].delays) - 1) :
            (ex[p].delays[i].kind = "backoff" /\ ex[p].delays[i + 1].kind = "backoff"
                /\ ex[p].delays[i + 1].backoff < client.retryPolicy.MaxBackoff)
            => ex[p].delays[i].d <= ex[p].delays[i + 1].d

\* C27 amended: for a policy with multiplier * (1 - jitter) >= 1, of two
\* successive computed waits of a call, the second with a backoff that was
\* not cut down to MaxBackoff, the second is not the shorter.
C27_DelaysNonDecreasingUnderSmallJitter ==
    \A p \in Procs :
        LET q == client.retryPolicy
        IN  q.BackoffMultiplier[1] * (q.Jitter[2] - q.Jitter[1])
                >= q.BackoffMultiplier[2] * q.Jitter[2]
            => \A i \in 1..(Len(ex[p].delays) - 1) :
                  (ex[p].delays[i].kind = "backoff" /\ ex[p].delays[i + 1].kind = "backoff"
                      /\ ex[p].delays[i + 1].backoff * q.BackoffMultiplier[2]
                            = ex[p].delays[i].backoff * q.BackoffMultiplier[1])
                  => ex[p].delays[i].d <= ex[p].delays[i + 1].d

\* C27 witness: with a jitter of a half and a multiplier of 2, a wait of two
\* seconds was followed by one of three, a second less than the backoff.
C27_Witness ==
    \E p \in Procs :
        /\ client.retryPolicy.Jitter = <<1, 2>>
        /\ Len(ex[p].delays) = 2
        /\ ex[p].delays[1] = [kind |-> "backoff", d |-> 2, backoff |-> 2]
        /\ ex[p].delays[2] = [kind |-> "backoff", d |-> 3, backoff |-> 4]

\* C28: the running backoff is InitialBackoff after no computed wait and
\* min(backoff * multiplier, MaxBackoff) after each one (a wait on
\* Retry-After leaves it alone), and it stays between InitialBackoff and
\* MaxBackoff.
C28_BackoffWithinBounds ==
    \A p \in Procs :
        (pc[p] \in {"doOnce", "loop", "sleep", "done"} /\ ~ex[p].single /\ ex[p].exit # "limiter")
        => /\ ex[p].backoff = BackoffAfter(client.retryPolicy, ComputedWaitsOver(p))
           /\ ex[p].backoff >= client.retryPolicy.InitialBackoff
           /\ ex[p].backoff <= client.retryPolicy.MaxBackoff

\* C28 witness: after two waits, one on Retry-After and one computed, the
\* backoff has grown once, from 2 to 4.
C28_Witness ==
    \E p \in Procs :
        /\ pc[p] = "doOnce"
        /\ Len(ex[p].delays) = 2
        /\ ex[p].delays[1].kind = "retryAfter"
        /\ ex[p].delays[2].kind = "backoff"
        /\ client.retryPolicy.InitialBackoff = 2
        /\ ex[p].backoff = 4

\* C29 as claimed: every computed wait w satisfies
\* backoff * (1 - jitter) < w <= backoff.
C29_JitterShortensStrictly ==
    \A p \in Procs :
        \A i \in 1..Len(ex[p].delays) :
            ex[p].delays[i].kind = "backoff"
            => /\ ex[p].delays[i].d <= ex[p].delays[i].backoff
               /\ ex[p].delays[i].d * client.retryPolicy.Jitter[2]
                    > ex[p].delays[i].backoff
                        * (client.retryPolicy.Jitter[2] - client.retryPolicy.Jitter[1])

\* C29 amended: every computed wait w satisfies
\* backoff * (1 - jitter) <= w <= backoff, the first inequality being strict
\* when the jitter is not 0; with a jitter of 0, w is the backoff.
C29_JitterShortens ==
    \A p \in Procs :
        \A i \in 1..Len(ex[p].delays) :
            ex[p].delays[i].kind = "backoff"
            => LET w == ex[p].delays[i].d
                   b == ex[p].delays[i].backoff
                   j == client.retryPolicy.Jitter
               IN  /\ w <= b
                   /\ w * j[2] >= b * (j[2] - j[1])
                   /\ j[1] > 0 => w * j[2] > b * (j[2] - j[1])
                   /\ j[1] = 0 => w = b

\* C29 witness: with a jitter of one, a backoff of two seconds gave a wait of
\* one second; with a jitter of 0 it gives two.
C29_Witness ==
    \E p \in Procs :
        /\ client.retryPolicy.Jitter = <<1, 1>>
        /\ Len(ex[p].delays) >= 1
        /\ ex[p].delays[1] = [kind |-> "backoff", d |-> 1, backoff |-> 2]

\* -------------------------------------------------- claims on the limiter

\* C7: in every interval of length T the limiter admits at most B + R * T
\* calls: for any two admissions i <= j, the j - i + 1 admissions from the
\* i-th to the j-th are at most B + R * (admits[j] - admits[i]).
C7_RateBound ==
    \A i, j \in 1..Len(admits) :
        i <= j => (j - i + 1) * Scale
                     <= limiter.maxTokens + limiter.tokensPerSec * (admits[j] - admits[i])

\* C8: in every reachable state of the limiter 0 <= tokens <= maxTokens.
C8_TokensInRange ==
    /\ limiter.tokens >= 0
    /\ limiter.tokens <= limiter.maxTokens

\* C8 witness: of three calls one was cancelled, and the third blocked and is
\* now admitted by its timer.
C8_Witness ==
    \E p \in Procs :
        /\ pc[p] = "waitret"
        /\ call[p].blocked
        /\ waitErr[p] = "nil"
        /\ nAcq = 3
        /\ Len(admits) = 2

\* The burst size B of the limiter.
Burst == limiter.maxTokens \div Scale

\* C9: a fresh limiter admits its first B calls without blocking; the
\* (B+1)-th call, made back to back with them (no tick since construction),
\* blocks with a timer of 1/R and, when it returns success, returns then.
C9_BurstThenWait ==
    \A p \in Procs :
        pc[p] \in {"blocked", "waitret"}
        => /\ (call[p].no >= 1 /\ call[p].no <= Burst)
              => (~call[p].blocked /\ waitErr[p] = "nil")
           /\ (call[p].no = Burst + 1 /\ call[p].acq = 0)
              => /\ call[p].blocked
                 /\ timer[p] * limiter.tokensPerSec = Scale
                 /\ (pc[p] = "waitret" /\ waitErr[p] = "nil") => now = timer[p]

\* C9 witness: the third call on a limiter of burst 2 has waited 1/R.
C9_Witness ==
    \E p \in Procs :
        /\ pc[p] = "waitret"
        /\ Burst = 2
        /\ call[p].no = 3
        /\ call[p].acq = 0
        /\ call[p].blocked
        /\ waitErr[p] = "nil"
        /\ now = timer[p]
        /\ now > 0

\* C10: a Wait call that has to wait and whose context is done before its
\* timer is due returns the context's error, at the instant the context is
\* done (or at once, if it was done before), and not success.
C10_CancelledWait ==
    \A p \in Procs :
        (pc[p] = "waitret" /\ call[p].blocked
            /\ call[p].cancelAt >= 0 /\ call[p].cancelAt < timer[p])
        => /\ ctx[p] # "live"
           /\ waitErr[p] = ctx[p]
           /\ now = Max(call[p].acq, call[p].cancelAt)

\* C10 witness: a blocked call whose deadline passed a tick into a longer
\* wait has returned context.DeadlineExceeded.
C10_Witness ==
    \E p \in Procs :
        /\ pc[p] = "waitret"
        /\ call[p].blocked
        /\ call[p].cancelAt > call[p].acq
        /\ call[p].cancelAt < timer[p]
        /\ waitErr[p] = "deadline"

\* ------------------------------------- claims on concurrent callers of Wait

\* C11: a Wait call whose context is done while it is queued at the mutex
\* behind a caller that holds it aborts promptly with the context's error: it
\* is not still queued at a later instant, and it does not return success.
C11_CancelledWhileQueuedAborts ==
    \A p \in Procs :
        /\ (pc[p] = "lock" /\ call[p].cancelAt > call[p].arrAt) => now = call[p].cancelAt
        /\ (pc[p] = "waitret" /\ call[p].cancelAt > call[p].arrAt
               /\ call[p].cancelAt < call[p].acq)
           => waitErr[p] # "nil"

\* C18: at most one caller at a time is inside Wait's critical section: the
\* caller blocked in the select holds the mutex, it is the only one, and since
\* it took the mutex no other call has entered, refilled the bucket or taken a
\* token.
C18_OneCallerInCriticalSection ==
    /\ Cardinality({p \in Procs : pc[p] = "blocked"}) <= 1
    /\ \A p \in Procs :
          /\ pc[p] = "blocked" <=> mutex = p
          /\ pc[p] = "blocked"
             => /\ call[p].no = nAcq
                /\ limiter.lastRefillTime = call[p].acq
                /\ limiter.tokens = call[p].refilled

\* C18 witness: a caller has been blocked in the select for a tick, and the
\* other caller, which arrived at the mutex before that tick, is still
\* waiting for it.
C18_Witness ==
    \E p, q \in Procs :
        /\ pc[p] = "blocked"
        /\ pc[q] = "lock"
        /\ ctx[q] = "live"
        /\ now > call[p].acq
        /\ call[q].arrAt < now

\* C19 as claimed: a caller that arrived at the mutex earlier (here: at an
\* earlier instant, so that it has been queued behind the holder) never
\* completes its Wait after a caller that arrived later.
C19_ServedInArrivalOrder ==
    \A p, q \in Procs :
        (call[p].arr > 0 /\ call[q].arr > 0 /\ call[p].arrAt < call[q].arrAt
            /\ pc[q] = "waitret")
        => pc[p] \notin {"lock", "blocked"}

\* C19 amended: Wait calls are served one at a time in the order in which
\* they take the mutex: a call that has completed took it before the call
\* that holds it now, and a call still queued has not entered.
C19_ServedInLockOrder ==
    \A p, q \in Procs :
        /\ pc[p] = "lock" => call[p].no = 0
        /\ (pc[q] = "waitret" /\ pc[p] = "blocked") => call[q].no < call[p].no
        /\ (pc[q] \in {"blocked", "waitret"} /\ pc[p] \in {"blocked", "waitret"} /\ p # q)
           => call[q].no # call[p].no

\* C19 witness: the caller that arrived later has completed its Wait, having
\* taken the mutex first, while the caller that arrived an instant earlier is
\* still queued.
C19_Witness ==
    \E p, q \in Procs :
        /\ pc[q] = "waitret"
        /\ pc[p] = "lock"
        /\ call[p].arrAt < call[q].arrAt
        /\ call[p].arr < call[q].arr
        /\ call[q].no > 0
        /\ waitErr[q] = "nil"

\* ------------------------------------ claims on the limiter's bookkeeping

\* C26: NewTokenBucketRateLimiter accepts any arguments: a rate <= 0 becomes
\* 10 per second and a burst <= 0 becomes 15, each whatever the other is;
\* positive arguments are kept; the bucket starts full.
C26_ConstructorDefaults ==
    /\ \A r \in ConstructRates, b \in ConstructBursts :
          LET l == NewTokenBucketRateLimiter(r, b, now)
          IN  /\ l.tokensPerSec = IF r <= 0 THEN 10 * Scale ELSE r
              /\ l.maxTokens = (IF b <= 0 THEN 15 ELSE b) * Scale
              /\ l.tokens = l.maxTokens
              /\ l.lastRefillTime = now
    /\ limiter.tokensPerSec \in {10 * Scale, Scale}
    /\ limiter.maxTokens \in {15 * Scale, Scale}
    /\ nAcq = 0 => limiter.tokens = limiter.maxTokens

\* C26 witness: a limiter constructed with a rate out of range and a burst of
\* one has the default rate and that burst, and has admitted a call.
C26_Witness ==
    /\ limiter.tokensPerSec = 10 * Scale
    /\ limiter.maxTokens = Scale
    /\ Len(admits) >= 1

\* C30: when a blocked Wait is admitted by its timer, lastRefillTime is still
\* the instant at which that call refilled, before it blocked, and tokens is
\* 0; the next call to enter is therefore credited the whole time since then,
\* the blocked interval included.
C30_BlockedIntervalCreditedAgain ==
    \A p \in Procs :
        (pc[p] = "waitret" /\ call[p].blocked /\ waitErr[p] = "nil")
        => /\ call[p].no = nAcq
              => (limiter.lastRefillTime = call[p].acq /\ limiter.tokens = 0)
           /\ \A q \in Procs \ {p} :
                 (pc[q] \in {"blocked", "waitret"} /\ call[q].no = call[p].no + 1)
                 => /\ call[q].acq - call[p].acq >= timer[p] - call[p].acq
                    /\ call[q].refilled
                          = Min(limiter.maxTokens,
                                (call[q].acq - call[p].acq) * limiter.tokensPerSec)

\* C30 witness: a call that entered at the instant a blocked call was
\* admitted found a whole token, credited for the interval the other spent
\* blocked, and was admitted at once.
C30_Witness ==
    \E p, q \in Procs :
        /\ pc[p] = "waitret" /\ call[p].blocked /\ waitErr[p] = "nil"
        /\ pc[q] = "waitret" /\ ~call[q].blocked /\ waitErr[q] = "nil"
        /\ call[q].no = call[p].no + 1
        /\ call[q].acq = timer[p]
        /\ timer[p] > call[p].acq
        /\ call[q].refilled = Scale

\* C38: a wait on a Retry-After delay leaves the running backoff as it was:
\* the wait, or the return, that follows it finds the backoff that the wait
\* itself found, and the first computed wait of a call is based on
\* InitialBackoff however many waits on Retry-After came before it.
C38_RetryAfterKeepsBackoff ==
    \A p \in Procs :
        LET d == ex[p].delays
        IN  /\ \A i \in 1..Len(d) :
                  /\ (d[i].kind = "retryAfter" /\ i < Len(d)) => d[i + 1].backoff = d[i].backoff
                  /\ (d[i].kind = "retryAfter" /\ i = Len(d)) => ex[p].backoff = d[i].backoff
                  /\ (d[i].kind = "backoff" /\ \A j \in 1..(i - 1) : d[j].kind = "retryAfter")
                     => d[i].backoff = client.retryPolicy.InitialBackoff

\* C38 witness: a wait of 2 seconds on Retry-After, then a computed wait
\* from an InitialBackoff of 2 seconds that is below MaxBackoff.
C38_Witness ==
    \E p \in Procs :
        /\ pc[p] = "sleep"
        /\ Len(ex[p].delays) = 2
        /\ ex[p].delays[1] = [kind |-> "retryAfter", d |-> 2, backoff |-> 2]
        /\ ex[p].delays[2] = [kind |-> "backoff", d |-> 2, backoff |-> 2]
        /\ client.retryPolicy.MaxBackoff > 2

\* ------------------------------------------------- claims on termination

\* C39: every call terminates.  A call makes at most 1 + MaxRetries attempts;
\* the mutex is held only by the caller blocked in Wait's select, so that it
\* is released on every return of Wait; and every call of DoWithOptions
\* returns, which it does only after its Wait has returned: no caller stays
\* queued at the mutex or blocked in the select forever.
C39_EveryCallTerminates ==
    /\ [](\A p \in Procs :
            /\ ex[p].attempts <= 1 + client.retryPolicy.MaxRetries
            /\ mutex = p => pc[p] = "blocked")
    /\ \A p \in Procs : (pc[p] # "idle") ~> (pc[p] = "idle")

\* C39 witness: p arrived at the mutex first, q took it first, found no token
\* and blocked in the select with the mutex held; p, queued behind it, then
\* entered, made its attempts and a wait before its retry, and has its
\* result.
C39_Witness ==
    \E p, q \in Procs :
        /\ pc[p] = "done"
        /\ call[p].arr = 1 /\ call[p].no = 2
        /\ call[q].arr = 2 /\ call[q].no = 1 /\ call[q].blocked
        /\ ex[p].attempts = 2
        /\ Len(ex[p].delays) = 1
        /\ ex[p].exit = "loop"

\* ------------------------------------------- claims on the call's options

\* The call of p is past the limiter: its first attempt is sent or answered.
PastLimiter(p) ==
    \/ pc[p] \in {"doOnce", "loop", "sleep"}
    \/ pc[p] = "done" /\ ex[p].exit # "limiter"

\* C33: a call makes its single attempt without the retry loop if and only
\* if the client was constructed with DisableRetries, or the per-call option
\* sets DisableRetries, or the client has no policy.  A per-call option that
\* leaves DisableRetries unset does not enable the loop on a client that was
\* constructed with DisableRetries, and a call with nil options follows the
\* client.
C33_RetriesDisabledIff ==
    \A p \in Procs :
        PastLimiter(p)
        => LET off == \/ client.disableRetries
                      \/ ~ex[p].opts.nil /\ ex[p].opts.DisableRetries
                      \/ client.retryPolicy.nil
           IN  /\ ex[p].single <=> off
               /\ pc[p] \in {"loop", "sleep"} => ~off
               /\ pc[p] = "done" => (ex[p].exit = "single" <=> off)
               /\ off => ex[p].attempts <= 1 /\ ex[p].delays = <<>>
               /\ client.disableRetries => ex[p].single
               /\ ex[p].opts.nil
                  => (ex[p].single <=> (client.disableRetries \/ client.retryPolicy.nil))

\* C33 witness: on a client constructed with DisableRetries and a policy, a
\* call whose options leave DisableRetries unset was answered 429, a status
\* the policy retries, and returned after that one attempt.
C33_Witness ==
    \E p \in Procs :
        /\ pc[p] = "done"
        /\ client.disableRetries
        /\ ~client.retryPolicy.nil
        /\ client.retryPolicy.MaxRetries >= 1
        /\ ~ex[p].opts.nil /\ ~ex[p].opts.DisableRetries
        /\ ex[p].exit = "single"
        /\ ex[p].attempts = 1
        /\ ex[p].ret.resp.status = 429

\* The options of p's call have a Context.
OverrideGiven(p) == ~ex[p].opts.nil /\ ex[p].opts.Context # "nil"

\* The state of the context that is to govern p's call: the options' when
\* they have one, the request's otherwise.
EffectiveSignal(p) ==
    IF ex[p].follows = (IF OverrideGiven(p) THEN "override" ELSE "request")
    THEN ctx[p] ELSE ex[p].shadow

LatestReturned(p) == pc[p] = "waitret" /\ call[p].no = nAcq

\* The context of p's call was done when the call was made.
DoneAtCall(p) == ctx[p] # "live" /\ call[p].cancelAt = call[p].arrAt

\* C37: Wait does not look at the context when it finds a token: a call made
\* with a context that is done already, which finds a whole token after the
\* refill, takes it and returns nil without blocking, and DoWithOptions goes
\* on to its attempt: it does not return at the limiter, and when it returns
\* it has made an attempt.
C37_TokenBeforeContext ==
    \A p \in Procs :
        (DoneAtCall(p) /\ call[p].no > 0 /\ call[p].refilled >= Scale)
        => /\ ~call[p].blocked
           /\ waitErr[p] = "nil"
           /\ pc[p] \in {"waitret", "doOnce", "loop", "sleep", "done"}
           /\ LatestReturned(p) => limiter.tokens = call[p].refilled - Scale
           /\ ex[p].exit # "limiter"
           /\ pc[p] \in {"loop", "done"} => ex[p].attempts >= 1

\* C37 witness: a call made with a cancelled context on a client whose
\* limiter had a token was admitted, made its attempt, which the transport
\* failed, and returned context.Canceled from doOnce.
C37_Witness ==
    \E p \in Procs :
        /\ pc[p] = "done"
        /\ client.rateLimiter
        /\ DoneAtCall(p)
        /\ ctx[p] = "canceled"
        /\ call[p].no = 1
        /\ ~call[p].blocked
        /\ call[p].refilled >= Scale
        /\ limiter.tokens = call[p].refilled - Scale
        /\ ex[p].attempts = 1
        /\ ex[p].exit # "limiter"
        /\ ex[p].ret.err = ContextError("canceled")

\* ------------------------------------- claims on callers that share a client

\* C35: a call that waits before a retry does not hold the limiter's mutex:
\* the mutex is held by the caller blocked in Wait and by no other, and a
\* caller at the mutex while the other caller waits before its retry finds
\* it free; if it arrived during that wait, it takes the mutex at the instant
\* it arrived.
C35_BackoffHoldsNoLock ==
    \A p, q \in Procs :
        /\ mutex = p <=> pc[p] = "blocked"
        /\ pc[p] = "sleep" => mutex # p
        /\ (pc[p] = "sleep" /\ pc[q] = "lock")
           => /\ Unlocked(mutex)
              /\ call[q].arrAt >= ex[p].at => now = call[q].arrAt

\* C35 witness: while p waits before its retry, q has called after that wait
\* began, passed the limiter, made its attempt and has its result, and p's
\* wait is not over.
C35_Witness ==
    \E p, q \in Procs :
        /\ pc[p] = "sleep"
        /\ now < timer[p]
        /\ call[q].arrAt > ex[p].at
        /\ pc[q] = "done"
        /\ waitErr[q] = "nil"
        /\ call[q].no > call[p].no
        /\ ex[q].attempts = 1
        /\ ex[q].ret.err = NilErr

\* C36: the retry count and the running backoff are the call's own: each of
\* the concurrent calls makes at most 1 + MaxRetries attempts, counts its own
\* retries, starts its first computed wait from InitialBackoff and has the
\* backoff that its own computed waits give, whatever the other call has
\* done; and no step of any call changes the client or its policy.
C36_CallsShareNoRetryState ==
    /\ [](\A p \in Procs :
            /\ ex[p].attempts <= 1 + client.retryPolicy.MaxRetries
            /\ ex[p].attempts >= 1 => ex[p].retries = ex[p].attempts - 1
            /\ ex[p].delays # <<>> => ex[p].delays[1].backoff = client.retryPolicy.InitialBackoff
            /\ (pc[p] \in {"doOnce", "loop", "sleep"})
               => ex[p].backoff = BackoffAfter(client.retryPolicy, ComputedWaitsOver(p)))
    /\ [][client' = client]_vars

\* C36 witness: p begins its first wait, from InitialBackoff, at the instant
\* the wait of q is over and q, its backoff grown, makes its last attempt.
C36_Witness ==
    \E p, q \in Procs :
        /\ pc[p] = "sleep"
        /\ Len(ex[p].delays) = 1
        /\ ex[p].backoff = client.retryPolicy.InitialBackoff
        /\ ex[p].at = timer[q]
        /\ pc[q] \in {"doOnce", "loop"}
        /\ Len(ex[q].delays) = 1
        /\ ex[q].backoff > client.retryPolicy.InitialBackoff

\* C31: a Wait call that returns the context's error leaves the bucket as its
\* refill computed it: the step that returns changes nothing of the limiter,
\* and until another call enters tokens is the refilled value and
\* lastRefillTime the instant of that refill; no step of any call changes
\* maxTokens or tokensPerSec.
C31_CancelledWaitKeepsRefill ==
    /\ [](\A p \in Procs :
            (LatestReturned(p) /\ waitErr[p] # "nil")
            => /\ call[p].blocked
               /\ limiter.tokens = call[p].refilled
               /\ limiter.lastRefillTime = call[p].acq)
    /\ [][/\ limiter'.maxTokens = limiter.maxTokens
          /\ limiter'.tokensPerSec = limiter.tokensPerSec
          /\ \A p \in Procs :
                (pc[p] = "blocked" /\ pc'[p] = "waitret" /\ waitErr'[p] # "nil")
                => limiter' = limiter]_vars

\* C31 witness: a call that refilled the bucket to half a token after the
\* limiter was constructed, and blocked, has been cancelled a tick later.
C31_Witness ==
    \E p \in Procs :
        /\ LatestReturned(p)
        /\ waitErr[p] = "canceled"
        /\ call[p].refilled > 0
        /\ call[p].acq > 0
        /\ now > call[p].acq
        /\ limiter.tokens = call[p].refilled
        /\ limiter.lastRefillTime = call[p].acq

\* C32: a Wait call that returns nil has taken exactly the permit there was:
\* with a whole token after the refill it did not block, returned at the
\* instant it entered and left tokens one less; with less than a token it
\* blocked, returned when its timer was due and left tokens 0.  A call blocks
\* only with less than a token.
C32_SuccessConsumesThePermit ==
    \A p \in Procs :
        /\ pc[p] = "blocked" => call[p].refilled < Scale
        /\ (LatestReturned(p) /\ waitErr[p] = "nil")
           => IF call[p].refilled >= Scale
              THEN /\ ~call[p].blocked
                   /\ now = call[p].acq
                   /\ limiter.tokens = call[p].refilled - Scale
              ELSE /\ call[p].blocked
                   /\ now = timer[p]
                   /\ timer[p] = call[p].acq + WaitTime([limiter EXCEPT !.tokens = call[p].refilled])
                   /\ limiter.tokens = 0

\* C32 witness: a call that found half a token waited for the other half and
\* was admitted.
C32_Witness ==
    \E p \in Procs :
        /\ LatestReturned(p)
        /\ waitErr[p] = "nil"
        /\ call[p].blocked
        /\ call[p].refilled > 0
        /\ now > call[p].acq
        /\ limiter.tokens = 0

=============================================================================
